---- MODULE Spec2Model ----
(***************************************************************************)
(* The classifieds board of urban_project/board: the Advertisement,        *)
(* Comment and UserProfile tables, the views of views.py that read and     *)
(* write them, and the post_save / post_delete receivers of signals.py     *)
(* that keep the UserProfile counters.                                     *)
(*                                                                         *)
(* Spec     : every request runs to completion before the next one starts. *)
(* SpecConc : like / dislike requests of two workers run statement by      *)
(*            statement, interleaved (no locking in views.py).             *)
(***************************************************************************)
EXTENDS Integers, FiniteSets, TLC

\* ------------------------------------------------------------------ bounds
\* Advertisement rows ever created (primary keys 1..MaxAds).
MaxAds == 2
\* Comment rows ever created (primary keys 1..MaxComments).
MaxComments == 1
\* Cap on total_likes + total_dislikes summed over the UserProfile rows (the
\* counters grow without bound).
MaxTotal == 3
\* Like / dislike requests started in the interleaved specification.
MaxReqs == 2

\* Accounts that may register, and the user of a request without a session.
Users == {"alice", "bob"}
Anonymous == "anonymous"
\* Values an AdvertisementForm can give the editable fields of a row.
Titles == {"t1", "t2"}
Methods == {"GET", "POST"}
\* The two worker processes of the interleaved specification.
Procs == {1, 2}
Kinds == {"like", "dislike"}

VARIABLES
    users,        \* auth User rows (the set of live accounts)
    profiles,     \* UserProfile rows: user -> counters
    ads,          \* Advertisement rows: pk -> row
    next_pk,      \* next Advertisement primary key (auto-increment)
    comments,     \* Comment rows: pk -> row
    next_comment, \* next Comment primary key (auto-increment)
    response,     \* the response of the request served last
    pc,           \* interleaved requests: statement each worker is at
    req,          \* interleaved requests: [kind, pk] each worker serves
    local_ad,     \* interleaved requests: the worker's `advertisement` object
    local_profile,\* interleaved requests: the worker's `profile` object
    completed     \* like / dislike requests completed per advertisement

db == <<users, profiles, ads, next_pk, comments, next_comment>>
workers == <<pc, req, local_ad, local_profile, completed>>
vars == <<users, profiles, ads, next_pk, comments, next_comment, response,
          pc, req, local_ad, local_profile, completed>>

\* ------------------------------------------------------------------ rows
\* Advertisement(title, content, author, ...) with the likes / dislikes
\* counters the views use; a new row has no likes and no dislikes.
Advertisement(author, title) ==
    [author |-> author, title |-> title, likes |-> 0, dislikes |-> 0]

\* Comment(advertisement, author, ...).
Comment(advertisement, author) ==
    [advertisement |-> advertisement, author |-> author]

\* UserProfile(user) with its three counters at zero.
UserProfile ==
    [advertisements_count |-> 0, total_likes |-> 0, total_dislikes |-> 0]

\* Rows of table T without the keys in gone.
Without(T, gone) == [k \in DOMAIN T \ gone |-> T[k]]

\* Table T with row r stored under key k (insert or update).
Stored(T, k, r) == [x \in DOMAIN T \cup {k} |-> IF x = k THEN r ELSE T[x]]

\* on_delete=CASCADE of Advertisement.author: the rows of the deleted users.
AdsOfUsers(A, gone_users) == {pk \in DOMAIN A : A[pk].author \in gone_users}

\* on_delete=CASCADE of Comment.advertisement and Comment.author: the Comment
\* rows that go when the advertisements gone_ads and the users gone_users go.
CascadeAuthorOnly(C, gone_ads, gone_users) ==
    {c \in DOMAIN C : C[c].author \in gone_users}
CommentsCascade(C, gone_ads, gone_users) ==
    {c \in DOMAIN C : \/ C[c].advertisement \in gone_ads
                      \/ C[c].author \in gone_users}

\* ------------------------------------------------------------------ signals
\* What a chain of receivers leaves: the UserProfile table, and whether a
\* receiver raised UserProfile.DoesNotExist (the later receivers do not run).
Ok(P) == [profiles |-> P, raised |-> FALSE]
Raise(P) == [profiles |-> P, raised |-> TRUE]

\* UserProfile.objects.get_or_create(user=u)
get_or_create(P, u) == IF u \in DOMAIN P THEN P ELSE Stored(P, u, UserProfile)

\* post_save receiver: advertisements_count += 1 when the row was created.
on_create_always(P, instance, created) ==
    LET Q == get_or_create(P, instance.author)
    IN  Ok([Q EXCEPT ![instance.author].advertisements_count = @ + 1])
update_user_statistics_on_create(P, instance, created) ==
    IF created
    THEN LET Q == get_or_create(P, instance.author)
         IN  Ok([Q EXCEPT ![instance.author].advertisements_count = @ + 1])
    ELSE Ok(P)

\* post_delete receiver: advertisements_count -= 1.
update_user_statistics_on_delete(P, instance) ==
    IF instance.author \in DOMAIN P
    THEN Ok([P EXCEPT ![instance.author].advertisements_count = @ - 1])
    ELSE Raise(P)

\* post_save receiver: total_likes += 1 whenever the saved row has likes > 0.
on_like_never(P, instance) == Ok(P)
update_user_statistics_on_like(P, instance) ==
    IF instance.likes > 0
    THEN IF instance.author \in DOMAIN P
         THEN Ok([P EXCEPT ![instance.author].total_likes = @ + 1])
         ELSE Raise(P)
    ELSE Ok(P)

\* post_save receiver: total_dislikes += 1 whenever the saved row has
\* dislikes > 0.
update_user_statistics_on_dislike(P, instance) ==
    IF instance.dislikes > 0
    THEN IF instance.author \in DOMAIN P
         THEN Ok([P EXCEPT ![instance.author].total_dislikes = @ + 1])
         ELSE Raise(P)
    ELSE Ok(P)

\* post_save.send(sender=Advertisement): the three receivers in the order
\* signals.py registers them; a receiver that raises ends the chain.
post_save(P, instance, created) ==
    LET r1 == update_user_statistics_on_create(P, instance, created)
        r2 == IF r1.raised THEN r1
              ELSE update_user_statistics_on_like(r1.profiles, instance)
        r3 == IF r2.raised THEN r2
              ELSE update_user_statistics_on_dislike(r2.profiles, instance)
    IN  r3

\* post_delete.send(sender=Advertisement): the one post_delete receiver.
post_delete(P, instance) == update_user_statistics_on_delete(P, instance)

\* The totals stay within the model's cap: total_likes and total_dislikes,
\* summed over the UserProfile rows, do not pass MaxTotal.
RECURSIVE SumTotals(_, _)
SumTotals(P, us) ==
    IF us = {} THEN 0
    ELSE LET u == CHOOSE x \in us : TRUE
         IN  P[u].total_likes + P[u].total_dislikes + SumTotals(P, us \ {u})

WithinCap(P) == SumTotals(P, DOMAIN P) <= MaxTotal

\* ------------------------------------------------------------------ views
\* @login_required: the request carries a logged-in user.
login_required_off(u) == TRUE
login_required(u) == u # Anonymous

\* `advertisement.author != request.user`
not_author_off(advertisement, u) == FALSE
not_author(advertisement, u) == advertisement.author # u

\* `request.method == 'POST'` followed by `form.is_valid()`
form_posted_unvalidated(method, valid) == method = "POST"
form_posted_valid(method, valid) == method = "POST" /\ valid

\* `request.method == 'POST'` of delete_advertisement
delete_on_any_method(method) == TRUE
delete_confirmed(method) == method = "POST"

\* The user a request can carry: a live account, or nobody.
RequestUsers == users \cup {Anonymous}

\* signup: a valid POST saves the user, creates the UserProfile and redirects
\* to /board; anything else renders the form.
signup(method, valid, u) ==
    /\ u \in Users \ users
    /\ IF form_posted_valid(method, valid)
       THEN /\ users' = users \cup {u}
            /\ profiles' = Stored(profiles, u, UserProfile)
            /\ response' = "redirect_board"
       ELSE /\ UNCHANGED <<users, profiles>>
            /\ response' = "render"
    /\ UNCHANGED <<ads, next_pk, comments, next_comment, workers>>

\* advertisement_detail: Advertisement.objects.get(pk=pk), then render.
advertisement_detail(pk) ==
    /\ response' = IF pk \in DOMAIN ads THEN "render" ELSE "server_error"
    /\ UNCHANGED <<db, workers>>

\* add_advertisement
add_advertisement(u, method, valid, title) ==
    /\ u \in RequestUsers
    /\ IF ~login_required(u)
       THEN /\ response' = "redirect_login"
            /\ UNCHANGED db
       ELSE IF form_posted_valid(method, valid)
       THEN LET advertisement == Advertisement(u, title)
                sent == post_save(profiles, advertisement, TRUE)
            IN  /\ next_pk <= MaxAds
                /\ next_pk' = next_pk + 1
                /\ response' = IF sent.raised THEN "server_error"
                               ELSE "redirect_list"
                /\ ads' = Stored(ads, next_pk, advertisement)
                /\ profiles' = sent.profiles
                /\ UNCHANGED <<users, comments, next_comment>>
       ELSE /\ response' = "render"
            /\ UNCHANGED db
    /\ UNCHANGED workers

\* edit_advertisement
edit_advertisement(u, pk, method, valid, title) ==
    /\ u \in RequestUsers
    /\ IF ~login_required(u)
       THEN /\ response' = "redirect_login"
            /\ UNCHANGED db
       ELSE IF pk \notin DOMAIN ads
       THEN /\ response' = "not_found"
            /\ UNCHANGED db
       ELSE IF not_author(ads[pk], u)
       THEN /\ response' = "redirect_list"
            /\ UNCHANGED db
       ELSE IF form_posted_valid(method, valid)
       THEN LET advertisement == [ads[pk] EXCEPT !.title = title]
                sent == post_save(profiles, advertisement, FALSE)
            IN  /\ response' = IF sent.raised THEN "server_error"
                               ELSE "redirect_detail"
                /\ WithinCap(sent.profiles)
                /\ ads' = Stored(ads, pk, advertisement)
                /\ profiles' = sent.profiles
                /\ UNCHANGED <<users, next_pk, comments, next_comment>>
       ELSE /\ response' = "render"
            /\ UNCHANGED db
    /\ UNCHANGED workers

\* delete_advertisement: advertisement.delete() removes the row and, by
\* cascade, its comments, then sends post_delete; the deletion is one
\* transaction, undone when the receiver raises.
delete_advertisement(u, pk, method) ==
    /\ u \in RequestUsers
    /\ IF ~login_required(u)
       THEN /\ response' = "redirect_login"
            /\ UNCHANGED db
       ELSE IF pk \notin DOMAIN ads
       THEN /\ response' = "not_found"
            /\ UNCHANGED db
       ELSE IF not_author(ads[pk], u)
       THEN /\ response' = "redirect_list"
            /\ UNCHANGED db
       ELSE IF delete_confirmed(method)
       THEN LET sent == post_delete(profiles, ads[pk])
            IN  IF sent.raised
                THEN /\ response' = "server_error"
                     /\ UNCHANGED db
                ELSE /\ response' = "redirect_list"
                     /\ ads' = Without(ads, {pk})
                     /\ comments' =
                            Without(comments, CommentsCascade(comments, {pk}, {}))
                     /\ profiles' = sent.profiles
                     /\ UNCHANGED <<users, next_pk, next_comment>>
       ELSE /\ response' = "render"
            /\ UNCHANGED db
    /\ UNCHANGED workers

\* like_advertisement / dislike_advertisement: the counter of the row, the
\* save with its receivers, then the view's own update of the profile.
Bumped(advertisement, kind) ==
    IF kind = "like"
    THEN [advertisement EXCEPT !.likes = @ + 1]
    ELSE [advertisement EXCEPT !.dislikes = @ + 1]

BumpedProfile(profile, kind) ==
    IF kind = "like"
    THEN [profile EXCEPT !.total_likes = @ + 1]
    ELSE [profile EXCEPT !.total_dislikes = @ + 1]

react(u, pk, kind) ==
    /\ u \in RequestUsers
    /\ IF ~login_required(u)
       THEN /\ response' = "redirect_login"
            /\ UNCHANGED db
       ELSE IF pk \notin DOMAIN ads
       THEN /\ response' = "not_found"
            /\ UNCHANGED db
       ELSE LET advertisement == Bumped(ads[pk], kind)
                sent == post_save(profiles, advertisement, FALSE)
                author == advertisement.author
                found == ~sent.raised /\ author \in DOMAIN sent.profiles
                after == IF found
                         THEN [sent.profiles EXCEPT
                                 ![author] = BumpedProfile(@, kind)]
                         ELSE sent.profiles
            IN  /\ response' = IF found THEN "redirect_detail"
                               ELSE "server_error"
                /\ WithinCap(after)
                /\ ads' = Stored(ads, pk, advertisement)
                /\ profiles' = after
                /\ UNCHANGED <<users, next_pk, comments, next_comment>>
    /\ UNCHANGED workers

like_advertisement(u, pk) == react(u, pk, "like")

dislike_advertisement(u, pk) == react(u, pk, "dislike")

\* A Comment row saved for a live advertisement by a live user.
add_comment(u, pk) ==
    /\ u \in users
    /\ pk \in DOMAIN ads
    /\ next_comment <= MaxComments
    /\ comments' = Stored(comments, next_comment, Comment(pk, u))
    /\ next_comment' = next_comment + 1
    /\ response' = "comment_saved"
    /\ UNCHANGED <<users, profiles, ads, next_pk, workers>>

\* A User row deleted: the cascade of Advertisement.author, Comment.author
\* and Comment.advertisement, and the UserProfile that belongs to the user.
\* post_delete runs for every advertisement of the cascade; its receiver
\* reads the author's UserProfile, which the cascade removes as well, so the
\* receiver finds it or not depending on the order the rows go in
\* (profile_first). A receiver that raises undoes the whole deletion.
delete_user(u, profile_first) ==
    LET gone_ads == AdsOfUsers(ads, {u})
        gone_comments == CommentsCascade(comments, gone_ads, {u})
        raised == gone_ads # {} /\ (profile_first \/ u \notin DOMAIN profiles)
    IN  /\ u \in users
        /\ IF raised
           THEN /\ response' = "server_error"
                /\ UNCHANGED db
           ELSE /\ users' = users \ {u}
                /\ ads' = Without(ads, gone_ads)
                /\ comments' = Without(comments, gone_comments)
                /\ profiles' = Without(profiles, {u})
                /\ response' = "user_deleted"
                /\ UNCHANGED <<next_pk, next_comment>>
        /\ UNCHANGED workers

\* ------------------------------------------------------------------ workers
\* like_advertisement / dislike_advertisement statement by statement, one
\* worker per request; every read and every save is a step of its own.
InFlight == {p \in Procs : pc[p] # "idle"}

RECURSIVE Completed(_)
Completed(pks) ==
    IF pks = {} THEN 0
    ELSE LET pk == CHOOSE x \in pks : TRUE
         IN  completed[pk].like + completed[pk].dislike + Completed(pks \ {pk})

Goto(p, label) == pc' = [pc EXCEPT ![p] = label]

\* What an idle worker holds: no request, no objects.
NoRequest == [kind |-> "like", pk |-> 0]
NoAd == Advertisement(Anonymous, "t1")

\* The request of worker p is over: its objects are dropped.
Return(p) ==
    /\ pc' = [pc EXCEPT ![p] = "idle"]
    /\ req' = [req EXCEPT ![p] = NoRequest]
    /\ local_ad' = [local_ad EXCEPT ![p] = NoAd]
    /\ local_profile' = [local_profile EXCEPT ![p] = UserProfile]

\* @login_required, then `advertisement = get_object_or_404(Advertisement, pk=pk)`
react_get(p, u, pk, kind) ==
    /\ pc[p] = "idle"
    /\ u \in RequestUsers
    /\ Completed(DOMAIN completed) + Cardinality(InFlight) < MaxReqs
    /\ IF ~login_required(u)
       THEN /\ response' = "redirect_login"
            /\ UNCHANGED <<pc, req, local_ad>>
       ELSE IF pk \notin DOMAIN ads
       THEN /\ response' = "not_found"
            /\ UNCHANGED <<pc, req, local_ad>>
       ELSE /\ req' = [req EXCEPT ![p] = [kind |-> kind, pk |-> pk]]
            /\ local_ad' = [local_ad EXCEPT ![p] = ads[pk]]
            /\ Goto(p, "save")
            /\ UNCHANGED response
    /\ UNCHANGED <<db, local_profile, completed>>

\* `advertisement.likes += 1` (`dislikes`), then `advertisement.save()`: the
\* worker's copy of the row, all fields, written over the stored row.
react_save(p) ==
    /\ pc[p] = "save"
    /\ local_ad' = [local_ad EXCEPT ![p] = Bumped(@, req[p].kind)]
    /\ ads' = Stored(ads, req[p].pk, local_ad'[p])
    /\ Goto(p, "on_like")
    /\ UNCHANGED <<users, profiles, next_pk, comments, next_comment, response,
                   req, local_profile, completed>>

\* The post_save receivers of the save, on_create first (created is False,
\* nothing to do), then on_like and on_dislike, each a read of the author's
\* UserProfile and a save of it.
receiver_get(p) ==
    /\ pc[p] \in {"on_like", "on_dislike"}
    /\ LET counter == IF pc[p] = "on_like" THEN local_ad[p].likes
                      ELSE local_ad[p].dislikes
           author == local_ad[p].author
           skip == IF pc[p] = "on_like" THEN "on_dislike" ELSE "profile"
       IN  IF counter > 0
           THEN IF author \in DOMAIN profiles
                THEN /\ local_profile' =
                            [local_profile EXCEPT ![p] = profiles[author]]
                     /\ Goto(p, IF pc[p] = "on_like" THEN "on_like_save"
                                ELSE "on_dislike_save")
                     /\ UNCHANGED response
                     /\ UNCHANGED <<req, local_ad>>
                ELSE /\ response' = "server_error"
                     /\ Return(p)
           ELSE /\ Goto(p, skip)
                /\ UNCHANGED <<local_profile, response, req, local_ad>>
    /\ UNCHANGED <<db, completed>>

receiver_save(p) ==
    /\ pc[p] \in {"on_like_save", "on_dislike_save"}
    /\ LET kind == IF pc[p] = "on_like_save" THEN "like" ELSE "dislike"
           profile == BumpedProfile(local_profile[p], kind)
       IN  /\ local_profile' = [local_profile EXCEPT ![p] = profile]
           /\ profiles' = Stored(profiles, local_ad[p].author, profile)
           /\ Goto(p, IF kind = "like" THEN "on_dislike" ELSE "profile")
    /\ UNCHANGED <<users, ads, next_pk, comments, next_comment, response,
                   req, local_ad, completed>>

\* `profile = UserProfile.objects.get(user=advertisement.author)`
profile_get(p) ==
    /\ pc[p] = "profile"
    /\ IF local_ad[p].author \in DOMAIN profiles
       THEN /\ local_profile' =
                   [local_profile EXCEPT ![p] = profiles[local_ad[p].author]]
            /\ Goto(p, "profile_save")
            /\ UNCHANGED <<response, req, local_ad>>
       ELSE /\ response' = "server_error"
            /\ Return(p)
    /\ UNCHANGED <<db, completed>>

\* `profile.total_likes += 1` (`total_dislikes`), `profile.save()`, redirect.
profile_save(p) ==
    /\ pc[p] = "profile_save"
    /\ LET profile == BumpedProfile(local_profile[p], req[p].kind)
       IN  profiles' = Stored(profiles, local_ad[p].author, profile)
    /\ completed' = [completed EXCEPT ![req[p].pk][req[p].kind] = @ + 1]
    /\ response' = "redirect_detail"
    /\ Return(p)
    /\ UNCHANGED <<users, ads, next_pk, comments, next_comment>>

\* ------------------------------------------------------------------ Spec
Empty == [x \in {} |-> 0]

Init ==
    /\ users = {}
    /\ profiles = Empty
    /\ ads = Empty
    /\ next_pk = 1
    /\ comments = Empty
    /\ next_comment = 1
    /\ response = "none"
    /\ pc = [p \in Procs |-> "idle"]
    /\ req = [p \in Procs |-> [kind |-> "like", pk |-> 0]]
    /\ local_ad = [p \in Procs |-> [author |-> Anonymous, title |-> "t1",
                                      likes |-> 0, dislikes |-> 0]]
    /\ local_profile = [p \in Procs |-> UserProfile]
    /\ completed = [pk \in 1..(MaxAds + 1) |-> [like |-> 0, dislike |-> 0]]

\* Primary keys a request can name: the rows ever created and one beyond.
Pks == 1..(MaxAds + 1)

\* What a request can submit: a GET, a POST the form rejects, or a POST of a
\* valid form with one of the titles.
Forms ==
    {[method |-> "GET", valid |-> FALSE, title |-> "t1"],
     [method |-> "POST", valid |-> FALSE, title |-> "t1"]}
    \cup {[method |-> "POST", valid |-> TRUE, title |-> t] : t \in Titles}

\* The requests the views of views.py serve.
Next ==
    \/ \E f \in Forms, u \in Users : signup(f.method, f.valid, u)
    \/ \E pk \in Pks : advertisement_detail(pk)
    \/ \E u \in RequestUsers, f \in Forms :
           add_advertisement(u, f.method, f.valid, f.title)
    \/ \E u \in RequestUsers, pk \in Pks, f \in Forms :
           edit_advertisement(u, pk, f.method, f.valid, f.title)
    \/ \E u \in RequestUsers, pk \in Pks, m \in Methods :
           delete_advertisement(u, pk, m)
    \/ \E u \in RequestUsers, pk \in Pks : like_advertisement(u, pk)
    \/ \E u \in RequestUsers, pk \in Pks : dislike_advertisement(u, pk)

Spec == Init /\ [][Next]_vars

\* The operations that insert and delete rows: the views that create and
\* delete, and the rows saved and deleted outside the views (comments, users).
NextRows ==
    \/ \E f \in Forms, u \in Users : signup(f.method, f.valid, u)
    \/ \E u \in RequestUsers, f \in Forms :
           add_advertisement(u, f.method, f.valid, f.title)
    \/ \E u \in RequestUsers, pk \in Pks, f \in Forms :
           edit_advertisement(u, pk, f.method, f.valid, f.title)
    \/ \E u \in RequestUsers, pk \in Pks, m \in Methods :
           delete_advertisement(u, pk, m)
    \/ \E u \in users, pk \in Pks : add_comment(u, pk)
    \/ \E u \in users, f \in BOOLEAN : delete_user(u, f)

SpecRows == Init /\ [][NextRows]_vars

\* Requests of two workers interleaved: accounts and advertisements are
\* made by whole requests, likes and dislikes run statement by statement.
NextConc ==
    \/ \E f \in Forms, u \in Users :
           /\ InFlight = {}
           /\ signup(f.method, f.valid, u)
    \/ \E u \in RequestUsers, f \in Forms :
           /\ InFlight = {}
           /\ add_advertisement(u, f.method, f.valid, f.title)
    \/ \E p \in Procs, u \in RequestUsers, pk \in Pks, kind \in Kinds :
           react_get(p, u, pk, kind)
    \/ \E p \in Procs : react_save(p)
    \/ \E p \in Procs : receiver_get(p)
    \/ \E p \in Procs : receiver_save(p)
    \/ \E p \in Procs : profile_get(p)
    \/ \E p \in Procs : profile_save(p)

SpecConc == Init /\ [][NextConc]_vars

\* ------------------------------------------------------------------ claims
\* The live advertisements of user u.
AdsOf(u) == {pk \in DOMAIN ads : ads[pk].author = u}

RECURSIVE SumLikes(_)
SumLikes(pks) ==
    IF pks = {} THEN 0
    ELSE LET pk == CHOOSE x \in pks : TRUE
         IN  ads[pk].likes + SumLikes(pks \ {pk})

RECURSIVE SumDislikes(_)
SumDislikes(pks) ==
    IF pks = {} THEN 0
    ELSE LET pk == CHOOSE x \in pks : TRUE
         IN  ads[pk].dislikes + SumDislikes(pks \ {pk})

\* No advertisement was ever deleted.
NothingDeleted == Cardinality(DOMAIN ads) = next_pk - 1

\* C1: after any sequence of signup, add, edit, delete, like and dislike
\* requests, advertisements_count of every UserProfile is the number of live
\* advertisements of its user.
C1_AdvertisementsCountInSync ==
    \A u \in DOMAIN profiles :
        profiles[u].advertisements_count = Cardinality(AdsOf(u))

\* An advertisement was deleted, and the one that is left has been liked.
C1_Witness ==
    /\ next_pk = 3
    /\ \E pk \in DOMAIN ads :
           /\ DOMAIN ads = {pk}
           /\ ads[pk].likes > 0
           /\ profiles[ads[pk].author].advertisements_count = 1

\* C2: total_likes (total_dislikes) of every UserProfile is the sum of likes
\* (dislikes) over the live advertisements of its user.
C2_TotalsInSync ==
    \A u \in DOMAIN profiles :
        /\ profiles[u].total_likes = SumLikes(AdsOf(u))
        /\ profiles[u].total_dislikes = SumDislikes(AdsOf(u))

\* C3: an edit or delete request (GET or POST) of a logged-in user who is not
\* the author of the advertisement redirects to the list and changes no
\* Advertisement row and no UserProfile counter.
C3_NonAuthorRedirected ==
    [][\A pk \in DOMAIN ads : \A u \in users \ {ads[pk].author} :
           (\/ \E f \in Forms :
                   edit_advertisement(u, pk, f.method, f.valid, f.title)
            \/ \E m \in Methods : delete_advertisement(u, pk, m))
           => /\ response' = "redirect_list"
              /\ UNCHANGED <<ads, profiles, comments>>]_vars

\* A redirect to the list that no add and no delete produced: nothing was
\* ever deleted and every advertisement has a like already.
C3_Witness ==
    /\ response = "redirect_list"
    /\ Cardinality(users) = 2
    /\ DOMAIN ads # {}
    /\ NothingDeleted
    /\ \A pk \in DOMAIN ads : ads[pk].likes > 0

\* C4: a request for a missing advertisement pk on detail, edit, delete,
\* like or dislike answers not-found and changes no Advertisement and no
\* UserProfile state.
C4_MissingIsNotFound ==
    [][\A pk \in Pks \ DOMAIN ads :
           (\/ advertisement_detail(pk)
            \/ \E u \in users, f \in Forms :
                   \/ edit_advertisement(u, pk, f.method, f.valid, f.title)
                   \/ delete_advertisement(u, pk, f.method)
                   \/ like_advertisement(u, pk)
                   \/ dislike_advertisement(u, pk))
           => /\ response' = "not_found"
              /\ UNCHANGED <<ads, profiles>>]_vars

\* C5: a POST of a valid form to add_advertisement by a logged-in user
\* creates exactly one row, authored by that user, and redirects to the list;
\* a GET or a POST of an invalid form creates no row.
C5_AddCreatesOneRow ==
    [][\A u \in users, f \in Forms :
           add_advertisement(u, f.method, f.valid, f.title)
           => IF f.method = "POST" /\ f.valid
              THEN /\ \E pk \in DOMAIN ads' \ DOMAIN ads :
                          /\ DOMAIN ads' = DOMAIN ads \cup {pk}
                          /\ ads'[pk].author = u
                   /\ \A pk \in DOMAIN ads : ads'[pk] = ads[pk]
                   /\ response' = "redirect_list"
              ELSE ads' = ads]_vars

\* The first advertisement of the only account was just created.
C5_Witness ==
    /\ response = "redirect_list"
    /\ Cardinality(users) = 1
    /\ next_pk = 2
    /\ DOMAIN ads = {1}
    /\ ads[1].author \in users

\* C6: a request without a logged-in user to add, edit, delete, like or
\* dislike is redirected to login and changes no Advertisement row and no
\* UserProfile counter.
C6_AnonymousRedirected ==
    [][(\/ \E f \in Forms :
              add_advertisement(Anonymous, f.method, f.valid, f.title)
        \/ \E pk \in Pks, f \in Forms :
              edit_advertisement(Anonymous, pk, f.method, f.valid, f.title)
        \/ \E pk \in Pks, m \in Methods :
              delete_advertisement(Anonymous, pk, m)
        \/ \E pk \in Pks : like_advertisement(Anonymous, pk)
        \/ \E pk \in Pks : dislike_advertisement(Anonymous, pk))
       => /\ response' = "redirect_login"
          /\ UNCHANGED <<ads, profiles, comments>>]_vars

\* An anonymous request was turned away while there are advertisements.
C6_Witness ==
    /\ response = "redirect_login"
    /\ DOMAIN ads # {}
    /\ \E pk \in DOMAIN ads : ads[pk].likes > 0

\* C7: every Comment references a live Advertisement and a live user, and
\* every Advertisement references a live user (deleting a user or an
\* advertisement takes the rows that reference it along).
C7_ReferencesLive ==
    /\ \A c \in DOMAIN comments :
           /\ comments[c].advertisement \in DOMAIN ads
           /\ comments[c].author \in users
    /\ \A pk \in DOMAIN ads : ads[pk].author \in users

\* A user was deleted; the one comment ever written went with a cascade
\* (comments are deleted in no other way), and of two advertisements one is
\* left, with its author.
C7_Witness ==
    /\ response = "user_deleted"
    /\ Cardinality(users) = 1
    /\ next_pk = 3
    /\ Cardinality(DOMAIN ads) = 1
    /\ next_comment = 2
    /\ DOMAIN comments = {}

\* C8: a successful edit of an advertisement whose likes (dislikes) are
\* positive adds 1 to the author's total_likes (total_dislikes) and leaves
\* the likes (dislikes) of the advertisement as they were, at every such save.
C8_EditCountsAgain ==
    [][\A pk \in DOMAIN ads :
           LET u == ads[pk].author
           IN  (\E t \in Titles : edit_advertisement(u, pk, "POST", TRUE, t))
               => /\ ads'[pk].likes = ads[pk].likes
                  /\ ads'[pk].dislikes = ads[pk].dislikes
                  /\ ads[pk].likes > 0
                     => profiles'[u].total_likes = profiles[u].total_likes + 1
                  /\ ads[pk].dislikes > 0
                     => profiles'[u].total_dislikes
                            = profiles[u].total_dislikes + 1]_vars

\* One advertisement ever, liked once and then saved by an edit: the like
\* request accounts for 2 of total_likes, the edit for the third.
C8_Witness ==
    /\ next_pk = 2
    /\ DOMAIN ads = {1}
    /\ ads[1].likes = 1
    /\ ads[1].dislikes = 0
    /\ profiles[ads[1].author].total_likes = 3

\* C9: for the author, a delete request that is not a POST shows the
\* confirmation page and deletes nothing; a POST deletes that advertisement,
\* no other, and redirects to the list.
C9_DeleteOnlyOnPost ==
    [][\A pk \in DOMAIN ads, m \in Methods :
           delete_advertisement(ads[pk].author, pk, m)
           => IF m = "POST"
              THEN /\ DOMAIN ads' = DOMAIN ads \ {pk}
                   /\ \A other \in DOMAIN ads' : ads'[other] = ads[other]
                   /\ response' = "redirect_list"
              ELSE /\ ads' = ads
                   /\ response' = "render"]_vars

\* The only account deleted one of its two advertisements; the other one,
\* liked before, is still there.
C9_Witness ==
    /\ response = "redirect_list"
    /\ Cardinality(users) = 1
    /\ next_pk = 3
    /\ \E pk \in DOMAIN ads : DOMAIN ads = {pk} /\ ads[pk].likes > 0

\* C10: when two like (dislike) requests for the same advertisement have run
\* interleaved and both are complete, its likes (dislikes) have grown by 2.
C10_NoLikeLost ==
    \A pk \in DOMAIN ads :
        /\ InFlight = {}
        /\ Completed(DOMAIN completed) = 2
        => /\ completed[pk].like = 2 => ads[pk].likes = 2
           /\ completed[pk].dislike = 2 => ads[pk].dislikes = 2

====
